---- MODULE Spec2Model ----
(***************************************************************************)
(* One turn of a completion engine of multi-llm-ts, for the two adapters   *)
(* of src/src/providers/google.ts (the Google adapter, lines 1-476, and    *)
(* the OpenAI adapter, lines 478-977): the recursive non-streaming chat()  *)
(* and the streaming pair doStream() / nativeChunkToLlmChunk().            *)
(*                                                                         *)
(* A JavaScript async function runs atomically between two suspension      *)
(* points (await, yield), so there is one action per stretch of code       *)
(* between two suspension points.  The backend and the tool registry are   *)
(* the environment: their answers are drawn from small sets.               *)
(***************************************************************************)
EXTENDS Integers, Sequences, FiniteSets, TLC

\* ------------------------------------------------------------------ bounds
MaxHops == 2      \* tool hops the backend may ask for in one turn
MaxCalls == 2     \* tool calls the backend may announce in one response
MaxThread == 3    \* messages of the thread a caller hands to the engine

\* ------------------------------------------------------------- JSON values
\* A string is a sequence of one-character strings.  The JSON documents of
\* the model are the decimal numerals; anything else is a syntax error.
Digits == <<"0", "1", "2", "3", "4", "5", "6", "7", "8", "9">>

IsDigit(c) == \E i \in 1..10 : Digits[i] = c

DigitVal(c) == IF IsDigit(c) THEN (CHOOSE i \in 1..10 : Digits[i] = c) - 1 ELSE 0

\* JSON.parse succeeds
JSONvalid(s) ==
    /\ Len(s) > 0
    /\ \A i \in 1..Len(s) : IsDigit(s[i])
    /\ Len(s) > 1 => s[1] # "0"

RECURSIVE JSONparse(_)
JSONparse(s) ==
    IF s = <<>> THEN 0
    ELSE 10 * JSONparse(SubSeq(s, 1, Len(s) - 1)) + DigitVal(s[Len(s)])

RECURSIVE JSONstringify(_)
JSONstringify(n) ==
    IF n < 10 THEN <<Digits[n + 1]>>
    ELSE JSONstringify(n \div 10) \o <<Digits[(n % 10) + 1]>>

\* ------------------------------------------------------------------- usage
\* response.usage / usageMetadata.  present = FALSE is "the backend
\* reported no usage"; pdetails / cdetails say whether prompt_tokens_details
\* and completion_tokens_details exist (OpenAI only).
NoUsage ==
    [present |-> FALSE, prompt_tokens |-> 0, completion_tokens |-> 0,
     pdetails |-> FALSE, cached_tokens |-> 0, paudio_tokens |-> 0,
     cdetails |-> FALSE, reasoning_tokens |-> 0, caudio_tokens |-> 0]

MkUsage(p, c, hasDetails, d) ==
    [present |-> TRUE, prompt_tokens |-> p, completion_tokens |-> c,
     pdetails |-> hasDetails, cached_tokens |-> d, paudio_tokens |-> d,
     cdetails |-> hasDetails, reasoning_tokens |-> d, caudio_tokens |-> d]

\* what a Google backend can report: usageMetadata has the two counters
GoogleUsages == {NoUsage, MkUsage(1, 2, FALSE, 0)}

\* what an OpenAI backend can report: the detail objects are optional
OpenAIUsages == {NoUsage, MkUsage(1, 2, FALSE, 0), MkUsage(1, 2, TRUE, 1)}

\* field-wise sum of two reported usages (the reference the claims speak of)
UsagePlus(a, b) ==
    IF ~a.present THEN b
    ELSE IF ~b.present THEN a
    ELSE [present |-> TRUE,
          prompt_tokens |-> a.prompt_tokens + b.prompt_tokens,
          completion_tokens |-> a.completion_tokens + b.completion_tokens,
          pdetails |-> a.pdetails \/ b.pdetails,
          cached_tokens |-> a.cached_tokens + b.cached_tokens,
          paudio_tokens |-> a.paudio_tokens + b.paudio_tokens,
          cdetails |-> a.cdetails \/ b.cdetails,
          reasoning_tokens |-> a.reasoning_tokens + b.reasoning_tokens,
          caudio_tokens |-> a.caudio_tokens + b.caudio_tokens]

RECURSIVE UsageSum(_)
UsageSum(us) ==
    IF us = <<>> THEN NoUsage
    ELSE UsagePlus(UsageSum(SubSeq(us, 1, Len(us) - 1)), us[Len(us)])


\* ------------------------------------------------------- environment inputs
\* The tool registry (engine.callTool) is outside the adapters, and they
\* never look into the content it returns: the content of the n-th
\* invocation of a turn is the number n, so that every invocation has a
\* content of its own and a result attached to the wrong call shows.
callToolContent(n) == n

\* A failure of the registry (tool not found, or the tool throws) is caught
\* by callTool and comes back as the content: an error description.
callToolError == 0

\* ids the OpenAI backend gives to the calls of one response, by position
CallIds == [k \in 1..(MaxCalls + 1) |-> <<"call", k>>]

SeqsUpTo(S, n) == UNION {[1..k -> S] : k \in 1..n}

\* functionCalls() of a Google response: name and args object
GoogleCalls ==
    {[id |-> <<>>, name |-> "f", args |-> 1, arguments |-> <<>>],
     [id |-> <<>>, name |-> "g", args |-> 12, arguments |-> <<>>]}

\* choice.message.tool_calls of an OpenAI response: id, name and the
\* arguments as text; "{" is a truncated document, which JSON.parse rejects
OpenAICall(k, name, arguments) ==
    [id |-> CallIds[k], name |-> name, args |-> 0, arguments |-> arguments]

OpenAICallLists ==
    {[k \in 1..n |-> IF shape[k] THEN OpenAICall(k, "f", <<"1">>)
                     ELSE OpenAICall(k, "g", <<"1", "2">>)] :
        n \in 1..MaxCalls, shape \in [1..MaxCalls -> BOOLEAN]}
      \cup {<<OpenAICall(1, "g", <<"{">>)>>,
            <<OpenAICall(1, "f", <<"1">>), OpenAICall(2, "g", <<"{">>)>>}

\* The responses a backend can give to a non-streaming request.  With usage
\* tracking off the adapters do not read the usage, and the backend reports
\* one.
GoogleResponses(canCall, track) ==
    LET us == IF track THEN GoogleUsages ELSE {MkUsage(1, 2, FALSE, 0)}
    IN  {[finish_reason |-> "STOP", calls |-> <<>>, usage |-> u] : u \in us}
          \cup (IF canCall
                THEN {[finish_reason |-> "STOP", calls |-> cs, usage |-> u] :
                         cs \in SeqsUpTo(GoogleCalls, MaxCalls), u \in us}
                ELSE {})

OpenAIResponses(canCall, track) ==
    LET us == IF track THEN OpenAIUsages ELSE {MkUsage(1, 2, TRUE, 1)}
    IN  {[finish_reason |-> "stop", calls |-> <<>>, usage |-> u] : u \in us}
          \cup (IF canCall
                THEN {[finish_reason |-> "tool_calls", calls |-> cs, usage |-> u] :
                         cs \in OpenAICallLists,
                         u \in us \ {MkUsage(1, 2, FALSE, 0)}}
                ELSE {})

NoResponse == [finish_reason |-> "", calls |-> <<>>, usage |-> NoUsage]

\* ---------------------------------------------------------- native chunks
\* One record for the chunks of both backends.
\*   calls      google: chunk.functionCalls()
\*   finish     google: candidates[0].finishReason; openai: finish_reason
\*   text       the chunk carries text (chunk.text() / delta.content)
\*   usage      chunk.usageMetadata / chunk.usage
\*   choices    openai: chunk.choices is not empty
\*   tc         openai: delta.tool_calls[0]; tc.id = <<>> is "no id"
\*   reasoning  openai: delta.reasoning_content is set
NoDelta == [present |-> FALSE, id |-> <<>>, name |-> "", arguments |-> <<>>]

Chunk(calls, finish, text, usage) ==
    [calls |-> calls, finish |-> finish, text |-> text, usage |-> usage,
     choices |-> TRUE, tc |-> NoDelta, reasoning |-> FALSE]

NoChunk == Chunk(<<>>, "", FALSE, NoUsage)

TextChunk == Chunk(<<>>, "", TRUE, NoUsage)

\* the usage a streaming backend reports for one request
StreamUsage == MkUsage(1, 2, TRUE, 1)

\* A google stream ends with the chunk that has the finish reason, after a
\* text chunk, or with a chunk of function calls.  at = "finish": the
\* backend reports usage, on the last chunk of a stream.
GoogleStreams(canCall, at) ==
    LET u == IF at = "finish" THEN MkUsage(1, 2, FALSE, 0) ELSE NoUsage
    IN  {<<Chunk(<<>>, "STOP", TRUE, u)>>,
         <<TextChunk, Chunk(<<>>, "STOP", TRUE, u)>>}
          \cup (IF canCall
                THEN {<<Chunk(cs, "STOP", FALSE, u)>> :
                         cs \in SeqsUpTo(GoogleCalls, MaxCalls)}
                ELSE {})

\* openai: a chunk whose delta carries a fragment of a tool call
Delta(id, name, arguments) ==
    [Chunk(<<>>, "", FALSE, NoUsage) EXCEPT
        !.tc = [present |-> TRUE, id |-> id, name |-> name,
                arguments |-> arguments]]

\* openai: the chunk with the finish reason
Finish(reason, u) == Chunk(<<>>, reason, FALSE, u)

\* openai: the chunk sent after the last choice when include_usage is set
UsageChunk(u) == [Chunk(<<>>, "", FALSE, u) EXCEPT !.choices = FALSE]

\* openai (deepseek): a chunk of reasoning text
ReasoningChunk == [Chunk(<<>>, "", FALSE, NoUsage) EXCEPT !.reasoning = TRUE]

\* The ways an openai backend streams call number k of a response: whole in
\* one fragment, in two fragments of which the second has no id, in two
\* fragments that both have the id, and whole but not a JSON document.
CallWhole(k) == <<Delta(CallIds[k], "f", <<"1">>)>>

CallSplit(k) == <<Delta(CallIds[k], "g", <<"1">>), Delta(<<>>, "", <<"2">>)>>

CallSplitWithId(k) ==
    <<Delta(CallIds[k], "g", <<"1">>), Delta(CallIds[k], "", <<"2">>)>>

CallBroken(k) == <<Delta(CallIds[k], "g", <<"{">>)>>

RECURSIVE Flatten(_)
Flatten(ss) == IF ss = <<>> THEN <<>> ELSE Head(ss) \o Flatten(Tail(ss))

\* the fragments of the calls of one response
OpenAICallFragments ==
    {Flatten([k \in 1..n |-> IF shape[k] THEN CallWhole(k) ELSE CallSplit(k)]) :
        n \in 1..MaxCalls, shape \in [1..MaxCalls -> BOOLEAN]}
      \cup {CallSplitWithId(1), CallBroken(1),
            CallWhole(1) \o CallBroken(2),
            \* the last fragment of call 1 arrives after call 2 was opened
            <<Delta(CallIds[1], "g", <<"1">>), Delta(CallIds[2], "f", <<"1">>),
              Delta(CallIds[1], "", <<"2">>)>>}

\* An openai stream: the deltas, the chunk with the finish reason and, for
\* at = "trailer", the usage chunk; at = "finish": the backend reports the
\* usage on the chunk with the finish reason.
OpenAIStreams(canCall, at) ==
    LET uf == IF at = "finish" THEN StreamUsage ELSE NoUsage
        trailer == IF at = "trailer" THEN <<UsageChunk(StreamUsage)>> ELSE <<>>
    IN  {body \o trailer :
            body \in {<<TextChunk, Finish("stop", uf)>>,
                      <<Finish("length", uf)>>,
                      <<ReasoningChunk, Finish("stop", uf)>>}
                     \cup (IF canCall
                           THEN {fr \o <<Finish("tool_calls", uf)>> :
                                    fr \in OpenAICallFragments}
                                \cup {<<TextChunk>> \o CallWhole(1)
                                        \o <<Finish("stop", uf)>>}
                           ELSE {})}

\* Streams of backends that do not follow the protocol of the openai
\* backend: a finish reason that announces tool calls after no fragment of a
\* tool call (the legacy function_call protocol sends its call outside
\* delta.tool_calls), and a first fragment that carries no call id.
LooseStreams(at) ==
    LET uf == IF at = "finish" THEN StreamUsage ELSE NoUsage
    IN  {<<Finish("tool_calls", uf)>>,
         <<Finish("function_call", uf)>>,
         <<Delta(<<>>, "f", <<"1">>), Finish("tool_calls", uf)>>}

\* ------------------------------------------------------------------- state
VARIABLES
    adapter,      \* "google" | "openai" | "openrouter": which engine class
                  \* serves the turn; the openrouter class extends the openai
                  \* class and inherits what it does not override
    mode,         \* "chat" (complete) | "stream"
    optsUsage,    \* opts.usage
    thread,       \* the thread of chat() / context.content / context.thread,
                  \* empty until the entry point has built it
    pc,           \* where the turn is suspended
    stack,        \* activations of the recursive chat(), innermost last
    completion,   \* the LlmResponse being returned through the activations
    requests,     \* history: the thread sent with each backend request
    responses,    \* history: what the backend answered to each request
    invocations,  \* history: calls of the tool registry, with their results
    active,       \* number of tool invocations in flight
    toolCalls,    \* context.toolCalls, the in-flight tool-call accumulator
    ctxDone,      \* context.done (openai)
    chunk,        \* the native chunk nativeChunkToLlmChunk is working on
    loop,         \* position of its "for (const toolCall of context.toolCalls)"
    results,      \* its local FunctionResponsePart list (google)
    pending,      \* native chunks the backend has yet to deliver
    usageAt,      \* where this backend reports usage when it streams
    registry,     \* "ok" | "flaky": whether a call of the registry may fail
    backend,      \* "strict": the backend streams tool calls as the openai
                  \* protocol has them | "loose": or as compatible backends do
    script,       \* the streams the backend answers with, request by
                  \* request; empty: the backend is free
    first,        \* history: the requests and the registry calls of the
                  \* non-streaming turn that came before this one
    optsTools,    \* opts.tools: "true" | "false" | "unset"
    topK,         \* opts.top_k is given
    supportsTools,\* supportsTools(model) / modelSupportsTools(model)
    nTools,       \* number of tools getAvailableTools() returns
    needsVision,  \* the thread has an image, the requested model is not
                  \* vision-capable and a vision-capable model exists
    model,        \* the model the turn issues its requests with
    sent,         \* history: what each request carried besides the thread
    aborted,      \* the backend stream of the turn was asked to stop
    callerThread, \* the Message[] the caller hands to complete() / stream()
    acceptsSystemRole, \* openai: modelAcceptsSystemRole(model);
                  \* google: supportsInstructions(model)
    \* two streaming turns on one engine instance (SpecTwoTurns)
    heap,         \* the StreamingContext objects created so far
    ctxOf,        \* per turn: the context its stream() call created (0: none)
    turnPc,       \* per turn: where the turn is suspended
    rest,         \* per turn: native chunks its backend has yet to deliver
    cur,          \* per turn: the native chunk it is working on
    turnLoop,     \* per turn: position of its tool loop
    turnParts,    \* per turn: FunctionResponsePart list of the loop (google)
    turnRequests, \* per turn: number of backend requests issued
    turnResults,  \* per turn, history: the contents callTool returned to it
    actor,        \* the turn that took the last step (0: none)
    events        \* history: the LlmChunks yielded to the caller, and, as
                  \* entries of type "invoke", the calls of callTool

vars == <<adapter, mode, optsUsage, thread, pc, stack, completion,
          requests, responses, invocations, active,
          toolCalls, ctxDone, chunk, loop, results, pending, usageAt, events,
          registry, backend, script, first, optsTools, topK, supportsTools, nTools, needsVision,
          model, sent, aborted, callerThread, acceptsSystemRole,
          heap, ctxOf, turnPc, rest, cur, turnLoop, turnParts, turnRequests,
          turnResults, actor>>

chatVars == <<stack, completion>>

streamVars == <<toolCalls, ctxDone, chunk, loop, results, pending, events>>

\* the options of the turn and what its entry point fixes
options == <<adapter, mode, optsUsage, usageAt, registry, backend, script, first,
             optsTools, topK, supportsTools, nTools, needsVision,
             callerThread, acceptsSystemRole>>

config == <<options, model, aborted>>

twoTurns == <<heap, ctxOf, turnPc, rest, cur, turnLoop, turnParts, turnRequests,
              turnResults, actor>>

Turns == {1, 2}

NoCompletion == [returned |-> FALSE, toolCalls |-> <<>>, usage |-> NoUsage]

\* an activation of chat(): its toolCallInfo, its response, its loop position
Frame(r) == [toolCallInfo |-> <<>>, response |-> r, i |-> 0]

Top == stack[Len(stack)]

SetTop(f) == [stack EXCEPT ![Len(stack)] = f]

UserThread == <<[role |-> "user", content |-> <<"q">>]>>

\* the caller hands over the one user message, for a model without system
\* role
DefaultThread ==
    /\ callerThread = UserThread
    /\ acceptsSystemRole = FALSE

\* the threads of up to MaxThread messages; the content of a message is its
\* position, so that the order of the units built from them shows
CallerThreads ==
    {[k \in 1..n |-> [role |-> roles[k], content |-> JSONstringify(k)]] :
        n \in 1..MaxThread,
        roles \in [1..MaxThread -> {"system", "user", "assistant"}]}

\* the engine's buildPayload: one unit per message, in thread order, with
\* the role and the content of the message
engineBuildPayload(th) ==
    [k \in 1..Len(th) |-> [role |-> th[k].role, content |-> th[k].content]]

openaiBuildPayloadKeepsSystem(th) == engineBuildPayload(th)

\* openai, buildPayload: the system units are filtered out for a model that
\* does not accept the system role (systemRole is 'system': no remapping)
openaiBuildPayload(th) ==
    IF ~acceptsSystemRole
    THEN SelectSeq(engineBuildPayload(th), LAMBDA msg : msg.role # "system")
    ELSE engineBuildPayload(th)

\* google, messageToContent
messageToContent(p) ==
    [role |-> IF p.role = "assistant" THEN "model" ELSE p.role,
     parts |-> <<p.content>>]

\* google, threadToHistory: a model with system instructions is given the
\* thread without its first message; system units become user units
threadToHistory(th) ==
    LET hasInstructions == acceptsSystemRole
        sliced == IF hasInstructions THEN SubSeq(th, 2, Len(th)) ELSE th
        built == engineBuildPayload(sliced)
        payload == [k \in 1..Len(built) |->
                      IF built[k].role = "system"
                      THEN [built[k] EXCEPT !.role = "user"]
                      ELSE built[k]]
    IN  [k \in 1..Len(payload) |-> messageToContent(payload[k])]

\* the thread complete() hands to chat(), the thread of the context of
\* stream()
buildThread(th) ==
    IF adapter = "google" THEN threadToHistory(th) ELSE openaiBuildPayload(th)

\* what callTool can return for the n-th invocation of the turn, after the
\* invocations invs: its content or, once in a turn with a flaky registry,
\* the description of a failure
callTool(n, invs) ==
    IF registry = "flaky" /\ \A k \in 1..Len(invs) : invs[k].result # callToolError
    THEN {callToolContent(n), callToolError}
    ELSE {callToolContent(n)}

\* google, getModel: "enable function calling when top_k provided or tools
\* flag true, and model supports tools"
googleDeclaresTools ==
    (optsTools = "true" \/ topK) /\ supportsTools /\ nTools > 0

\* openai, modelSupportsTools(model); the openrouter class overrides it:
\* "return true"
modelSupportsTools == IF adapter = "openrouter" THEN TRUE ELSE supportsTools

\* openai, getFunctionCallingOptions: "disable tools only when explicitly
\* disabled or top_k is not provided, or model doesn't support tools"
openaiDeclaresTools ==
    IF (optsTools = "false" \/ ~topK) \/ ~modelSupportsTools THEN FALSE
    ELSE nTools > 0

\* openrouter, getToolsOpts: "include function-calling when plugins are
\* registered".  The tools getAvailableTools() returns are those of the
\* registered plugins: there is a tool only if there is a plugin.
getToolsOpts == nTools > 0

\* what the request of chat() and doStream() is given as tool declarations:
\* both call getFunctionCallingOptions, which the openrouter class inherits;
\* nothing calls its getToolsOpts
declaresTools ==
    IF adapter = "google" THEN googleDeclaresTools ELSE openaiDeclaresTools

\* what a request carries besides the thread
Sent == [tools |-> declaresTools, model |-> model]

\* a turn with the tools on: flag true, top_k given, a model that supports
\* tools, one tool registered, and no image in the thread
DefaultTools ==
    /\ optsTools = "true"
    /\ topK = TRUE
    /\ supportsTools = TRUE
    /\ nTools = 1
    /\ needsVision = FALSE

\* no concurrent turns
NoTurns ==
    /\ heap = <<>>
    /\ ctxOf = [t \in Turns |-> 0]
    /\ turnPc = [t \in Turns |-> "off"]
    /\ rest = [t \in Turns |-> <<>>]
    /\ cur = [t \in Turns |-> NoChunk]
    /\ turnLoop = [t \in Turns |-> 0]
    /\ turnParts = [t \in Turns |-> <<>>]
    /\ turnRequests = [t \in Turns |-> 0]
    /\ turnResults = [t \in Turns |-> <<>>]
    /\ actor = 0

NoFirst == [requests |-> <<>>, invocations |-> <<>>]

\* the turn before its first step
InitTurn ==
    /\ NoTurns
    /\ script = <<>>
    /\ first = NoFirst
    /\ thread = <<>>
    /\ pc = "start"
    /\ stack = <<>>
    /\ completion = NoCompletion
    /\ requests = <<>>
    /\ sent = <<>>
    /\ model = "requested"
    /\ aborted = FALSE
    /\ responses = <<>>
    /\ invocations = <<>>
    /\ active = 0
    /\ toolCalls = <<>>
    /\ ctxDone = FALSE
    /\ chunk = NoChunk
    /\ loop = 0
    /\ results = <<>>
    /\ pending = <<>>
    /\ events = <<>>

Init ==
    /\ adapter \in {"google", "openai"}
    /\ mode \in {"chat", "stream"}
    /\ optsUsage \in BOOLEAN
    /\ registry = "ok"
    /\ backend = "strict"
    /\ DefaultTools
    /\ DefaultThread
    /\ usageAt \in (IF mode = "chat" THEN {"none"}
                    ELSE IF adapter = "google" THEN {"none", "finish"}
                    ELSE IF optsUsage THEN {"none", "finish", "trailer"}
                    \* stream_options: { include_usage: opts.usage || false }
                    ELSE {"none", "finish"})
    /\ InitTurn

\* ---------------------------------------------------- non-streaming: chat()
\* chat() up to its first await: the request is issued with the thread
chatRequest(th, m) ==
    /\ requests' = Append(requests, th)
    /\ sent' = Append(sent, [tools |-> declaresTools, model |-> m])
    /\ stack' = Append(stack, Frame(NoResponse))
    /\ pc' = "chat_await"

\* selectModel: "switch to vision if needed"
selectModel(m) == IF needsVision THEN "vision" ELSE m

\* the model complete() hands to chat(): the google complete() hands on the
\* model it was given; the openai adapter inherits complete() from the
\* engine, which selects the model first
googleCompleteModel(m) == m

engineCompleteModel(m) == selectModel(m)

completeModel(m) ==
    IF adapter = "google" THEN googleCompleteModel(m) ELSE engineCompleteModel(m)

\* complete(): threadToHistory, then chat()
complete ==
    /\ pc = "start"
    /\ mode = "chat"
    /\ model' = completeModel(model)
    /\ thread' = buildThread(callerThread)
    /\ chatRequest(thread', model')
    /\ UNCHANGED <<options, aborted, twoTurns>>
    /\ UNCHANGED <<completion, responses, invocations, active>>
    /\ UNCHANGED streamVars

\* the params chat() passes to callTool for a call of the response
\* (google: toolCall.args; openai: JSON.parse(toolCall.function.arguments))
chatParams(call) ==
    IF adapter = "google" THEN call.args ELSE JSONparse(call.arguments)

\* openai: JSON.parse throws on the arguments of the call
chatParseFails(call) == adapter # "google" /\ ~JSONvalid(call.arguments)

\* the usage of the terminal LlmResponse
googleTerminalUsage(u) ==
    IF optsUsage /\ u.present
    THEN MkUsage(u.prompt_tokens, u.completion_tokens, FALSE, 0)
    ELSE NoUsage

openaiTerminalUsage(u) == IF optsUsage /\ u.present THEN u ELSE NoUsage

terminalUsage(u) ==
    IF adapter = "google" THEN googleTerminalUsage(u) ELSE openaiTerminalUsage(u)

\* the message pushed for the response's tool calls
googleAssistantMessage(calls) == [role |-> "assistant", parts |-> calls]

googleToolMessage(parts) == [role |-> "tool", parts |-> parts]

openaiToolMessage(id, name, content) ==
    [role |-> "tool", tool_call_id |-> id, name |-> name,
     content |-> JSONstringify(content)]


chatHasToolCallsFirstHopOnly(r) ==
    /\ Len(stack) = 1
    /\ IF adapter = "google" THEN Len(r.calls) > 0
       ELSE r.finish_reason = "tool_calls"

\* "check for tool calls": does chat() enter the tool branch for response r
chatHasToolCalls(r) ==
    IF adapter = "google" THEN Len(r.calls) > 0
    ELSE r.finish_reason = "tool_calls"

\* google, "cumulate usage" of chat(): cu is completion.usage, ru the usage
\* of this activation's response
googleCumulate(cu, ru) ==
    IF optsUsage /\ ru.present /\ cu.present
    THEN [cu EXCEPT !.prompt_tokens = @ + ru.prompt_tokens,
                    !.completion_tokens = @ + ru.completion_tokens]
    ELSE cu

\* openai, "cumulate usage" of chat(): a detail counter of the response that
\* is truthy is added to the counter of completion.usage; the access throws a
\* TypeError when completion.usage has no such details object
openaiCumulateThrows(cu, ru) ==
    /\ optsUsage /\ ru.present /\ cu.present
    /\ \/ ru.pdetails /\ (ru.cached_tokens # 0 \/ ru.paudio_tokens # 0) /\ ~cu.pdetails
       \/ ru.cdetails /\ (ru.reasoning_tokens # 0 \/ ru.caudio_tokens # 0) /\ ~cu.cdetails

openaiCumulate(cu, ru) ==
    IF optsUsage /\ ru.present /\ cu.present
    THEN [cu EXCEPT
            !.prompt_tokens = @ + ru.prompt_tokens,
            !.cached_tokens = IF ru.pdetails /\ ru.cached_tokens # 0
                              THEN @ + ru.cached_tokens ELSE @,
            !.paudio_tokens = IF ru.pdetails /\ ru.paudio_tokens # 0
                              THEN @ + ru.paudio_tokens ELSE @,
            !.reasoning_tokens = IF ru.cdetails /\ ru.reasoning_tokens # 0
                                 THEN @ + ru.reasoning_tokens ELSE @,
            !.caudio_tokens = IF ru.cdetails /\ ru.caudio_tokens # 0
                              THEN @ + ru.caudio_tokens ELSE @]
    ELSE cu

cumulateUsage(cu, ru) ==
    IF adapter = "google" THEN googleCumulate(cu, ru) ELSE openaiCumulate(cu, ru)

cumulateThrows(cu, ru) == adapter # "google" /\ openaiCumulateThrows(cu, ru)

googleResultsWithoutErrors(info) ==
    LET ok == SelectSeq(info, LAMBDA r : r.result # callToolError)
    IN  [k \in 1..Len(ok) |-> [name |-> ok[k].name, response |-> ok[k].result]]

\* the FunctionResponsePart list of a google activation
googleResults(info) ==
    [k \in 1..Len(info) |-> [name |-> info[k].name, response |-> info[k].result]]

googlePushAssistantOnly(th, calls, parts) ==
    th \o <<googleAssistantMessage(calls)>>

googleUnshiftToolMessages(th, calls, parts) ==
    <<googleAssistantMessage(calls), googleToolMessage(parts)>> \o th

\* google, "function call" and "send": the two messages pushed after the
\* tool loop, by chat() and by nativeChunkToLlmChunk
googlePushToolMessages(th, calls, parts) ==
    th \o <<googleAssistantMessage(calls), googleToolMessage(parts)>>

\* the for loop of activation f over the calls of its response, from call
\* f.i to the next await: the callTool of that call, or the recursive chat()
chatLoop(f, th, act) ==
    IF f.i > Len(f.response.calls)
    THEN LET th2 == IF adapter = "google"
                    THEN googlePushToolMessages(th, f.response.calls,
                                                googleResults(f.toolCallInfo))
                    ELSE th
         IN  /\ thread' = th2
             /\ requests' = Append(requests, th2)
             /\ sent' = Append(sent, Sent)
             /\ stack' = Append(SetTop(f), Frame(NoResponse))
             /\ pc' = "chat_await"
             /\ active' = act
    ELSE IF chatParseFails(f.response.calls[f.i])
    THEN /\ thread' = th
         /\ stack' = SetTop(f)
         /\ pc' = "error"
         /\ active' = act
         /\ UNCHANGED <<requests, sent>>
    ELSE /\ thread' = th
         /\ stack' = SetTop(f)
         /\ pc' = "chat_callTool"
         /\ active' = act + 1
         /\ UNCHANGED <<requests, sent>>

\* the backend answers the request of the innermost chat()
chatResponse ==
    /\ pc = "chat_await"
    /\ \E r \in (IF adapter = "google"
                 THEN GoogleResponses(Len(requests) <= MaxHops /\ declaresTools,
                                      optsUsage)
                 ELSE OpenAIResponses(Len(requests) <= MaxHops /\ declaresTools,
                                      optsUsage)) :
         /\ responses' = Append(responses, r)
         /\ IF chatHasToolCalls(r)
            THEN /\ chatLoop([Top EXCEPT !.response = r, !.i = 1],
                             IF adapter # "google"
                             THEN Append(thread, [role |-> "assistant",
                                                  tool_calls |-> r.calls])
                             ELSE thread,
                             active)
                 /\ UNCHANGED completion
            ELSE /\ completion' = [returned |-> TRUE,
                                   toolCalls |-> Top.toolCallInfo,
                                   usage |-> terminalUsage(r.usage)]
                 /\ stack' = SubSeq(stack, 1, Len(stack) - 1)
                 /\ pc' = IF Len(stack) = 1 THEN "done" ELSE "chat_return"
                 /\ UNCHANGED <<thread, requests, sent, active>>
    /\ UNCHANGED <<config, twoTurns>>
    /\ UNCHANGED <<invocations>>
    /\ UNCHANGED streamVars

\* callTool returns its content to the loop of the innermost chat()
chatToolReturn ==
    /\ pc = "chat_callTool"
    /\ \E content \in callTool(Len(invocations) + 1, invocations) :
         LET call == Top.response.calls[Top.i]
             info == [name |-> call.name, params |-> chatParams(call),
                      result |-> content]
         IN  /\ invocations' = Append(invocations, info)
             /\ LET f == [Top EXCEPT !.toolCallInfo = Append(@, info), !.i = @ + 1]
                    th == IF adapter # "google"
                          THEN Append(thread,
                                      openaiToolMessage(call.id, call.name, content))
                          ELSE thread
                IN  chatLoop(f, th, active - 1)
    /\ UNCHANGED <<config, twoTurns>>
    /\ UNCHANGED <<completion, responses>>
    /\ UNCHANGED streamVars

\* "prepend tool call info": the calls of this activation come before those
\* of the activations it called
appendToolCallInfo(toolCallInfo, later) == later \o toolCallInfo

prependToolCallInfo(toolCallInfo, later) == toolCallInfo \o later

\* the recursive chat() has returned completion to the activation below:
\* "prepend tool call info", "cumulate usage", return
chatReturn ==
    /\ pc = "chat_return"
    /\ IF cumulateThrows(completion.usage, Top.response.usage)
       THEN /\ pc' = "error"
            /\ completion' =
                  [completion EXCEPT
                     !.toolCalls = prependToolCallInfo(Top.toolCallInfo, @)]
            /\ UNCHANGED stack
       ELSE /\ completion' =
                  [completion EXCEPT
                     !.toolCalls = prependToolCallInfo(Top.toolCallInfo, @),
                     !.usage = cumulateUsage(@, Top.response.usage)]
            /\ stack' = SubSeq(stack, 1, Len(stack) - 1)
            /\ pc' = IF Len(stack) = 1 THEN "done" ELSE "chat_return"
    /\ UNCHANGED <<config, twoTurns>>
    /\ UNCHANGED <<thread, requests, sent, responses, invocations, active>>
    /\ UNCHANGED streamVars

\* ------------------------------------------------------------- streaming
\* the LlmChunks of the adapters, and the "invoke" entry of the history
ToolEvent(name, status, done, params, result) ==
    [type |-> "tool", name |-> name, status |-> status, done |-> done,
     params |-> params, result |-> result, usage |-> NoUsage]

InvokeEntry(name, params) ==
    [type |-> "invoke", name |-> name, status |-> "", done |-> FALSE,
     params |-> params, result |-> 0, usage |-> NoUsage]

ContentEvent(done) ==
    [type |-> "content", name |-> "", status |-> "", done |-> done,
     params |-> 0, result |-> 0, usage |-> NoUsage]

ReasoningEvent(done) ==
    [type |-> "reasoning", name |-> "", status |-> "", done |-> done,
     params |-> 0, result |-> 0, usage |-> NoUsage]

UsageEvent(u) ==
    [type |-> "usage", name |-> "", status |-> "", done |-> FALSE,
     params |-> 0, result |-> 0, usage |-> u]

StreamEvent ==
    [type |-> "stream", name |-> "", status |-> "", done |-> FALSE,
     params |-> 0, result |-> 0, usage |-> NoUsage]

\* the streams the backend of the adapter can open
Streams(canCall) ==
    IF adapter = "google" THEN GoogleStreams(canCall, usageAt)
    ELSE OpenAIStreams(canCall, usageAt)
           \cup (IF backend = "loose" /\ canCall THEN LooseStreams(usageAt)
                 ELSE {})

keepToolCalls(tcs) == tcs

\* doStream, "reset": context.toolCalls = []
resetToolCalls(tcs) == <<>>

\* doStream(context) with context.thread = th and context.model = m: "reset", then the request.
\* The chunks of the new stream come after what the old stream has left.
doStream(th, m) ==
    /\ toolCalls' = resetToolCalls(toolCalls)
    /\ requests' = Append(requests, th)
    /\ sent' = Append(sent, [tools |-> declaresTools, model |-> m])
    /\ \E str \in (IF Len(requests) < Len(script)
                   THEN {script[Len(requests) + 1]}
                   ELSE Streams(Len(requests) < MaxHops /\ declaresTools)) :
         /\ responses' = Append(responses, str)
         /\ pending' = pending \o str

\* stream(): the context of the turn, then doStream(context)
stream ==
    /\ pc = "start"
    /\ mode = "stream"
    /\ model' = selectModel(model)
    /\ thread' = buildThread(callerThread)
    /\ doStream(thread', model')
    /\ ctxDone' = FALSE
    /\ pc' = "s_idle"
    /\ UNCHANGED <<options, aborted, twoTurns>>
    /\ UNCHANGED <<invocations, active, chunk, loop, results, events>>
    /\ UNCHANGED chatVars

\* google: "save" of nativeChunkToLlmChunk
googleSaveToolCalls(calls) ==
    [k \in 1..Len(calls) |->
        [id |-> calls[k].name, message |-> <<>>, function |-> calls[k].name,
         args |-> JSONstringify(calls[k].args)]]

\* the usage event of a google chunk
googleChunkUsage(u) == MkUsage(u.prompt_tokens, u.completion_tokens, FALSE, 0)

\* the caller takes the next native chunk of the stream and hands it to
\* nativeChunkToLlmChunk, which runs to its first yield (google)
googleChunk ==
    /\ pc = "s_idle"
    /\ adapter = "google"
    /\ pending # <<>>
    /\ chunk' = Head(pending)
    /\ pending' = Tail(pending)
    /\ IF Len(chunk'.calls) > 0
       THEN /\ toolCalls' = googleSaveToolCalls(chunk'.calls)
            /\ results' = <<>>
            /\ loop' = 1
            /\ events' = Append(events,
                                ToolEvent(toolCalls'[1].function, "preparing",
                                          FALSE, 0, 0))
            /\ pc' = "g_prepared"
       ELSE /\ events' = Append(events, ContentEvent(chunk'.finish # ""))
            /\ pc' = "s_content"
            /\ UNCHANGED <<toolCalls, results, loop>>
    /\ UNCHANGED <<config, twoTurns>>
    /\ UNCHANGED <<thread, requests, sent, responses, invocations, active, ctxDone>>
    /\ UNCHANGED chatVars

\* google: resumed after the "preparing" event: JSON.parse of the call's
\* args, then the "running" event
googlePrepared ==
    /\ pc = "g_prepared"
    /\ IF JSONvalid(toolCalls[loop].args)
       THEN /\ events' = Append(events,
                                ToolEvent(toolCalls[loop].function, "running",
                                          FALSE, JSONparse(toolCalls[loop].args), 0))
            /\ pc' = "g_running"
       ELSE /\ pc' = "error"
            /\ UNCHANGED events
    /\ UNCHANGED <<config, twoTurns>>
    /\ UNCHANGED <<thread, requests, sent, responses, invocations, active,
                   toolCalls, ctxDone, chunk, loop, results, pending>>
    /\ UNCHANGED chatVars

\* google: resumed after the "running" event: callTool is called
googleRunning ==
    /\ pc = "g_running"
    /\ events' = Append(events, InvokeEntry(toolCalls[loop].function,
                                            JSONparse(toolCalls[loop].args)))
    /\ active' = active + 1
    /\ pc' = "g_callTool"
    /\ UNCHANGED <<config, twoTurns>>
    /\ UNCHANGED <<thread, requests, sent, responses, invocations, toolCalls,
                   ctxDone, chunk, loop, results, pending>>
    /\ UNCHANGED chatVars

\* google: callTool returns: the result is kept and the result event yielded
googleToolReturn ==
    /\ pc = "g_callTool"
    /\ \E content \in callTool(Len(invocations) + 1, invocations) :
       LET tc == toolCalls[loop]
           args == JSONparse(tc.args)
       IN  /\ invocations' = Append(invocations,
                                    [name |-> tc.function, params |-> args,
                                     result |-> content])
           /\ results' = Append(results,
                                [name |-> tc.function, response |-> content])
           /\ events' = Append(events,
                               ToolEvent(tc.function, "", TRUE, args, content))
    /\ active' = active - 1
    /\ pc' = "g_result"
    /\ UNCHANGED <<config, twoTurns>>
    /\ UNCHANGED <<thread, requests, sent, responses, toolCalls, ctxDone, chunk,
                   loop, pending>>
    /\ UNCHANGED chatVars

\* google: resumed after the result event: the next call of the loop, or,
\* after the last one, the two messages, doStream and the stream event
googleResult ==
    /\ pc = "g_result"
    /\ IF loop < Len(toolCalls)
       THEN /\ loop' = loop + 1
            /\ events' = Append(events,
                                ToolEvent(toolCalls[loop + 1].function,
                                          "preparing", FALSE, 0, 0))
            /\ pc' = "g_prepared"
            /\ UNCHANGED <<thread, requests, sent, responses, toolCalls, pending>>
       ELSE /\ thread' = googlePushToolMessages(thread, chunk.calls, results)
            /\ doStream(thread', model)
            /\ events' = Append(events, StreamEvent)
            /\ pc' = "s_switch"
            /\ UNCHANGED loop
    /\ UNCHANGED <<config, twoTurns>>
    /\ UNCHANGED <<invocations, active, ctxDone, chunk, results>>
    /\ UNCHANGED chatVars

\* resumed after the stream event: nativeChunkToLlmChunk returns
streamSwitched ==
    /\ pc = "s_switch"
    /\ pc' = "s_idle"
    /\ UNCHANGED <<config, twoTurns>>
    /\ UNCHANGED <<thread, requests, sent, responses, invocations, active>>
    /\ UNCHANGED streamVars
    /\ UNCHANGED chatVars

\* google: resumed after the content event: the usage event, or the end
googleContent ==
    /\ pc = "s_content"
    /\ adapter = "google"
    /\ IF chunk.finish # "" /\ optsUsage /\ chunk.usage.present
       THEN /\ events' = Append(events, UsageEvent(googleChunkUsage(chunk.usage)))
            /\ pc' = "s_usage"
       ELSE /\ pc' = "s_idle"
            /\ UNCHANGED events
    /\ UNCHANGED <<config, twoTurns>>
    /\ UNCHANGED <<thread, requests, sent, responses, invocations, active,
                   toolCalls, ctxDone, chunk, loop, results, pending>>
    /\ UNCHANGED chatVars

\* resumed after the usage event: nativeChunkToLlmChunk returns
usageYielded ==
    /\ pc = "s_usage"
    /\ pc' = "s_idle"
    /\ UNCHANGED <<config, twoTurns>>
    /\ UNCHANGED <<thread, requests, sent, responses, invocations, active>>
    /\ UNCHANGED streamVars
    /\ UNCHANGED chatVars

\* openai: the message pushed to the thread for a tool call of the stream
openaiCallMessage(tc) ==
    [role |-> "assistant", content |-> <<>>, tool_calls |-> tc.message]

\* openai: "const done = [...].includes(finish_reason)"
openaiDone(c) == c.finish \in {"stop", "length", "content_filter", "eos"}

\* openai: "now tool calling": the finish reason says the call set is
\* complete and the accumulator tcs is not empty
openaiToolCalling(c, tcs) ==
    c.finish \in {"tool_calls", "function_call", "stop"} /\ tcs # <<>>

openaiTailUsageAnyTime(c, from, evs, cd) ==
    IF from < 1 /\ c.choices /\ c.reasoning
    THEN /\ events' = Append(evs, ReasoningEvent(openaiDone(c)))
         /\ pc' = "o_reasoning"
    ELSE IF from < 2 /\ c.choices /\ (c.text \/ openaiDone(c))
    THEN /\ events' = Append(evs, ContentEvent(openaiDone(c)))
         /\ pc' = "s_content"
    ELSE IF optsUsage /\ c.usage.present
    THEN /\ events' = Append(evs, UsageEvent(c.usage))
         /\ pc' = "s_usage"
    ELSE /\ events' = evs
         /\ pc' = "s_idle"

\* openai: the yields after the tool branch, in code order: reasoning,
\* content, usage.  from = 0: none of them was reached yet, 1: resumed after
\* the reasoning event, 2: resumed after the content event.  cd is
\* context.done.
openaiTail(c, from, evs, cd) ==
    IF from < 1 /\ c.choices /\ c.reasoning
    THEN /\ events' = Append(evs, ReasoningEvent(openaiDone(c)))
         /\ pc' = "o_reasoning"
    ELSE IF from < 2 /\ c.choices /\ (c.text \/ openaiDone(c))
    THEN /\ events' = Append(evs, ContentEvent(openaiDone(c)))
         /\ pc' = "s_content"
    ELSE IF optsUsage /\ cd /\ c.usage.present
    THEN /\ events' = Append(evs, UsageEvent(c.usage))
         /\ pc' = "s_usage"
    ELSE /\ events' = evs
         /\ pc' = "s_idle"

openaiLoopNoRunningEvent(tcs, i, evs) ==
    /\ loop' = i
    /\ events' = evs
    /\ pc' = IF JSONvalid(tcs[i].args) THEN "o_running" ELSE "error"

openaiLoopIgnoresParseError(tcs, i, evs) ==
    /\ loop' = i
    /\ events' = Append(evs,
                        ToolEvent(tcs[i].function, "running", FALSE,
                                  JSONparse(tcs[i].args), 0))
    /\ pc' = "o_running"

\* openai: the tool loop at call i, up to its "running" event; JSON.parse
\* of the accumulated args throws when they are no JSON document
openaiLoop(tcs, i, evs) ==
    /\ loop' = i
    /\ IF JSONvalid(tcs[i].args)
       THEN /\ events' = Append(evs,
                                ToolEvent(tcs[i].function, "running", FALSE,
                                          JSONparse(tcs[i].args), 0))
            /\ pc' = "o_running"
       ELSE /\ events' = evs
            /\ pc' = "error"

\* openai: nativeChunkToLlmChunk from "now tool calling" to its next yield,
\* with the accumulator tcs
openaiAfterDelta(c, tcs, evs) ==
    /\ toolCalls' = tcs
    /\ IF openaiToolCalling(c, tcs)
       THEN /\ openaiLoop(tcs, 1, evs)
            /\ UNCHANGED ctxDone
       ELSE /\ ctxDone' = (ctxDone \/ openaiDone(c))
            /\ openaiTail(c, 0, evs, ctxDone')
            /\ UNCHANGED loop

openaiAppendByIdToLast(tcs, k, tc) ==
    [tcs EXCEPT ![Len(tcs)].args = @ \o tc.arguments]

\* openai: "append arguments to existing tool call" (the fragment has the
\* id of record k)
openaiAppendById(tcs, k, tc) ==
    [tcs EXCEPT ![k].args = @ \o tc.arguments]

\* openai: "record the tool call"
openaiRecord(tcs, tc) ==
    Append(tcs, [id |-> tc.id,
                 message |-> <<[id |-> tc.id, name |-> tc.name,
                                arguments |-> tc.arguments]>>,
                 function |-> tc.name,
                 args |-> tc.arguments])

\* openai: "append arguments" (the fragment has no id): to the last record,
\* whose message is given the arguments so far
openaiAppendToLast(tcs, tc) ==
    LET n == Len(tcs)
        a == tcs[n].args \o tc.arguments
    IN  [tcs EXCEPT ![n].args = a,
                    ![n].message[Len(tcs[n].message)].arguments = a]

\* the caller takes the next native chunk of the stream and hands it to
\* nativeChunkToLlmChunk, which runs to its first yield (openai)
openaiChunk ==
    /\ pc = "s_idle"
    /\ adapter # "google"
    /\ pending # <<>>
    /\ chunk' = Head(pending)
    /\ pending' = Tail(pending)
    /\ LET c == Head(pending)
           tc == c.tc
       IN  IF ~tc.present
           THEN openaiAfterDelta(c, toolCalls, events)
           ELSE IF tc.id # <<>>
           THEN IF \E k \in 1..Len(toolCalls) : toolCalls[k].id = tc.id
                THEN LET k == CHOOSE j \in 1..Len(toolCalls) :
                                  /\ toolCalls[j].id = tc.id
                                  /\ \A h \in 1..(j - 1) : toolCalls[h].id # tc.id
                     IN  openaiAfterDelta(c, openaiAppendById(toolCalls, k, tc),
                                          events)
                ELSE /\ toolCalls' = openaiRecord(toolCalls, tc)
                     /\ events' = Append(events,
                                         ToolEvent(tc.name, "preparing", FALSE, 0, 0))
                     /\ pc' = "o_prepared"
                     /\ UNCHANGED <<loop, ctxDone>>
           ELSE IF toolCalls = <<>>
           THEN \* context.toolCalls[-1] is undefined: TypeError
                /\ pc' = "error"
                /\ UNCHANGED <<toolCalls, events, loop, ctxDone>>
           ELSE openaiAfterDelta(c, openaiAppendToLast(toolCalls, tc), events)
    /\ UNCHANGED <<config, twoTurns>>
    /\ UNCHANGED <<thread, requests, sent, responses, invocations, active, results>>
    /\ UNCHANGED chatVars

\* openai: resumed after the "preparing" event of a new record
openaiPrepared ==
    /\ pc = "o_prepared"
    /\ openaiAfterDelta(chunk, toolCalls, events)
    /\ UNCHANGED <<config, twoTurns>>
    /\ UNCHANGED <<thread, requests, sent, responses, invocations, active, chunk,
                   results, pending>>
    /\ UNCHANGED chatVars

\* openai: resumed after the "running" event: callTool is called
openaiRunning ==
    /\ pc = "o_running"
    /\ events' = Append(events, InvokeEntry(toolCalls[loop].function,
                                            JSONparse(toolCalls[loop].args)))
    /\ active' = active + 1
    /\ pc' = "o_callTool"
    /\ UNCHANGED <<config, twoTurns>>
    /\ UNCHANGED <<thread, requests, sent, responses, invocations, toolCalls, ctxDone,
                   chunk, loop, results, pending>>
    /\ UNCHANGED chatVars

\* openai: callTool returns: the two messages are pushed and the result
\* event yielded
openaiToolReturn ==
    /\ pc = "o_callTool"
    /\ \E content \in callTool(Len(invocations) + 1, invocations) :
       LET tc == toolCalls[loop]
           args == JSONparse(tc.args)
       IN  /\ invocations' = Append(invocations,
                                    [name |-> tc.function, params |-> args,
                                     result |-> content])
           /\ thread' = thread \o <<openaiCallMessage(tc),
                                    openaiToolMessage(tc.id, tc.function, content)>>
           /\ events' = Append(events,
                               ToolEvent(tc.function, "", TRUE, args, content))
    /\ active' = active - 1
    /\ pc' = "o_result"
    /\ UNCHANGED <<config, twoTurns>>
    /\ UNCHANGED <<requests, sent, responses, toolCalls, ctxDone, chunk, loop, results,
                   pending>>
    /\ UNCHANGED chatVars

\* openai: resumed after the result event: the next call of the loop, or,
\* after the last one, doStream and the stream event
openaiResult ==
    /\ pc = "o_result"
    /\ IF loop < Len(toolCalls)
       THEN /\ openaiLoop(toolCalls, loop + 1, events)
            /\ UNCHANGED <<requests, sent, responses, toolCalls, pending>>
       ELSE /\ doStream(thread, model)
            /\ events' = Append(events, StreamEvent)
            /\ pc' = "s_switch"
            /\ UNCHANGED loop
    /\ UNCHANGED <<config, twoTurns>>
    /\ UNCHANGED <<thread, invocations, active, ctxDone, chunk, results>>
    /\ UNCHANGED chatVars

\* openai: resumed after the reasoning event
openaiReasoning ==
    /\ pc = "o_reasoning"
    /\ openaiTail(chunk, 1, events, ctxDone)
    /\ UNCHANGED <<config, twoTurns>>
    /\ UNCHANGED <<thread, requests, sent, responses, invocations, active, toolCalls,
                   ctxDone, chunk, loop, results, pending>>
    /\ UNCHANGED chatVars

\* openai: resumed after the content event
openaiContent ==
    /\ pc = "s_content"
    /\ adapter # "google"
    /\ openaiTail(chunk, 2, events, ctxDone)
    /\ UNCHANGED <<config, twoTurns>>
    /\ UNCHANGED <<thread, requests, sent, responses, invocations, active, toolCalls,
                   ctxDone, chunk, loop, results, pending>>
    /\ UNCHANGED chatVars

\* the last stream of the turn is exhausted: the caller's loop ends
streamEnd ==
    /\ pc = "s_idle"
    /\ pending = <<>>
    /\ pc' = "done"
    /\ UNCHANGED <<config, twoTurns>>
    /\ UNCHANGED <<thread, requests, sent, responses, invocations, active>>
    /\ UNCHANGED streamVars
    /\ UNCHANGED chatVars

Next ==
    \/ complete
    \/ chatResponse
    \/ chatToolReturn
    \/ chatReturn
    \/ stream
    \/ googleChunk
    \/ googlePrepared
    \/ googleRunning
    \/ googleToolReturn
    \/ googleResult
    \/ streamSwitched
    \/ googleContent
    \/ openaiChunk
    \/ openaiPrepared
    \/ openaiRunning
    \/ openaiToolReturn
    \/ openaiResult
    \/ openaiReasoning
    \/ openaiContent
    \/ usageYielded
    \/ streamEnd

Spec == Init /\ [][Next]_vars

\* ---------------------------------------------------------- cancellation
\* where the caller of a streaming turn has control: between two native
\* chunks, and when nativeChunkToLlmChunk is suspended at a yield
EventBoundary ==
    pc \in {"s_idle", "g_prepared", "g_running", "g_result", "s_switch",
            "s_content", "s_usage", "o_prepared", "o_running", "o_result",
            "o_reasoning"}

\* google, stop(stream): the abort is commented out
googleStop(a) == a

\* openai, stop(stream): stream?.controller?.abort()
openaiStop(a) == TRUE

\* The caller stops the turn at an event boundary: it calls stop() with the
\* stream it is reading and abandons the generator.  An aborted stream
\* delivers no further chunk.
stop ==
    /\ mode = "stream"
    /\ EventBoundary
    /\ aborted' = (IF adapter = "google" THEN googleStop(aborted)
                   ELSE openaiStop(aborted))
    /\ pending' = (IF aborted' THEN <<>> ELSE pending)
    /\ pc' = "stopped"
    /\ UNCHANGED <<options, model, twoTurns>>
    /\ UNCHANGED <<thread, requests, sent, responses, invocations, active,
                   toolCalls, ctxDone, chunk, loop, results, events>>
    /\ UNCHANGED chatVars

NextStop == Next \/ stop

SpecStop == Init /\ [][NextStop]_vars

\* a turn whose tool registry fails for one of its calls
InitRegistry ==
    /\ adapter \in {"google", "openai"}
    /\ mode \in {"chat", "stream"}
    /\ optsUsage = TRUE
    /\ registry = "flaky"
    /\ backend = "strict"
    /\ DefaultTools
    /\ DefaultThread
    /\ usageAt = (IF mode = "chat" THEN "none" ELSE "finish")
    /\ InitTurn

SpecRegistry == InitRegistry /\ [][Next]_vars

\* a turn under every combination of the tools flag, top_k, the model's
\* tool support and the number of registered tools, with or without the
\* need of a vision model
InitTools ==
    /\ adapter \in {"google", "openai"}
    /\ mode \in {"chat", "stream"}
    /\ optsUsage = TRUE
    /\ registry = "ok"
    /\ backend = "strict"
    /\ optsTools \in {"true", "false", "unset"}
    /\ topK \in BOOLEAN
    /\ supportsTools \in BOOLEAN
    /\ nTools \in {0, 1}
    /\ needsVision \in BOOLEAN
    /\ DefaultThread
    /\ usageAt = (IF mode = "chat" THEN "none" ELSE "finish")
    /\ InitTurn

SpecTools == InitTools /\ [][Next]_vars

\* a turn of the openrouter adapter under every combination of the tools
\* flag, top_k and the number of registered tools
InitOpenRouter ==
    /\ adapter = "openrouter"
    /\ mode \in {"chat", "stream"}
    /\ optsUsage \in BOOLEAN
    /\ registry = "ok"
    /\ backend = "strict"
    /\ optsTools \in {"true", "false", "unset"}
    /\ topK \in BOOLEAN
    /\ supportsTools = FALSE
    /\ nTools \in {0, 1}
    /\ needsVision = FALSE
    /\ DefaultThread
    /\ usageAt = (IF mode = "chat" THEN "none" ELSE "finish")
    /\ InitTurn

\* the steps of a turn of the openai class and of its subclasses
NextOpenAI ==
    \/ complete
    \/ chatResponse
    \/ chatToolReturn
    \/ chatReturn
    \/ stream
    \/ streamSwitched
    \/ openaiChunk
    \/ openaiPrepared
    \/ openaiRunning
    \/ openaiToolReturn
    \/ openaiResult
    \/ openaiReasoning
    \/ openaiContent
    \/ usageYielded
    \/ streamEnd

SpecOpenRouter == InitOpenRouter /\ [][NextOpenAI]_vars

\* a streaming turn of the openai adapter, without usage tracking
InitFragments ==
    /\ adapter = "openai"
    /\ mode = "stream"
    /\ optsUsage = FALSE
    /\ registry = "ok"
    /\ backend = "strict"
    /\ DefaultTools
    /\ DefaultThread
    /\ usageAt = "none"
    /\ InitTurn

NextFragments ==
    \/ stream
    \/ streamSwitched
    \/ openaiChunk
    \/ openaiPrepared
    \/ openaiRunning
    \/ openaiToolReturn
    \/ openaiResult
    \/ openaiReasoning
    \/ openaiContent
    \/ streamEnd

SpecFragments == InitFragments /\ [][NextFragments]_vars

\* a streaming turn of the openai adapter with a backend that need not
\* follow the protocol
InitLoose ==
    /\ adapter = "openai"
    /\ mode = "stream"
    /\ optsUsage \in BOOLEAN
    /\ registry = "ok"
    /\ backend = "loose"
    /\ DefaultTools
    /\ DefaultThread
    /\ usageAt \in {"none", "finish"}
    /\ InitTurn

\* the steps of a streaming turn of the openai adapter
NextLoose ==
    \/ stream
    \/ streamSwitched
    \/ openaiChunk
    \/ openaiPrepared
    \/ openaiRunning
    \/ openaiToolReturn
    \/ openaiResult
    \/ openaiReasoning
    \/ openaiContent
    \/ usageYielded
    \/ streamEnd

SpecLoose == InitLoose /\ [][NextLoose]_vars

\* ------------------------------- the same turn, non-streaming then streaming
\* the response r of a non-streaming request as the backend streams it: the
\* function calls in one chunk (google); one fragment per tool call, with id,
\* name and arguments, then the chunk with the finish reason (openai)
googleStreamOf(r) == <<Chunk(r.calls, "STOP", r.calls = <<>>, r.usage)>>

openaiStreamOf(r) ==
    (IF r.calls = <<>> THEN <<TextChunk>>
     ELSE [k \in 1..Len(r.calls) |->
              Delta(r.calls[k].id, r.calls[k].name, r.calls[k].arguments)])
      \o <<Finish(r.finish_reason, r.usage)>>

StreamOf(r) == IF adapter = "google" THEN googleStreamOf(r) ELSE openaiStreamOf(r)

\* complete() has returned; the caller now calls stream() of the same engine
\* with the same model, thread and opts, and the backend will answer request
\* by request with what it answered to complete()
again ==
    /\ pc = "done"
    /\ mode = "chat"
    /\ first = NoFirst
    /\ first' = [requests |-> requests, invocations |-> invocations]
    /\ script' = [n \in 1..Len(responses) |-> StreamOf(responses[n])]
    /\ mode' = "stream"
    /\ pc' = "start"
    /\ thread' = <<>>
    /\ stack' = <<>>
    /\ completion' = NoCompletion
    /\ requests' = <<>>
    /\ sent' = <<>>
    /\ model' = "requested"
    /\ responses' = <<>>
    /\ invocations' = <<>>
    /\ active' = 0
    /\ UNCHANGED <<adapter, optsUsage, usageAt, registry, backend, optsTools, topK,
                   supportsTools, nTools, needsVision, callerThread,
                   acceptsSystemRole, aborted, twoTurns>>
    /\ UNCHANGED streamVars

InitAgain ==
    /\ adapter \in {"google", "openai"}
    /\ mode = "chat"
    /\ optsUsage = FALSE
    /\ usageAt = "none"
    /\ registry = "ok"
    /\ backend = "strict"
    /\ DefaultTools
    /\ DefaultThread
    /\ InitTurn

NextAgain ==
    \/ complete
    \/ chatResponse
    \/ chatToolReturn
    \/ chatReturn
    \/ again
    \/ stream
    \/ googleChunk
    \/ googlePrepared
    \/ googleRunning
    \/ googleToolReturn
    \/ googleResult
    \/ streamSwitched
    \/ googleContent
    \/ openaiChunk
    \/ openaiPrepared
    \/ openaiRunning
    \/ openaiToolReturn
    \/ openaiResult
    \/ openaiContent
    \/ streamEnd

SpecAgain == InitAgain /\ [][NextAgain]_vars

\* ------------------------------------------------------------ the payload
\* the entry points, for every thread and with or without system role
InitPayload ==
    /\ adapter \in {"google", "openai"}
    /\ mode \in {"chat", "stream"}
    /\ optsUsage = FALSE
    /\ usageAt = "none"
    /\ registry = "ok"
    /\ backend = "strict"
    /\ DefaultTools
    /\ callerThread \in CallerThreads
    /\ acceptsSystemRole \in BOOLEAN
    /\ InitTurn

NextPayload == complete \/ stream

SpecPayload == InitPayload /\ [][NextPayload]_vars

\* ------------------------------------- two streaming turns on one engine
\* Two stream() calls on the same engine instance, their steps interleaved
\* at the awaits: of the next native chunk, and of a tool's result.  The
\* StreamingContext objects live in a heap; a turn reaches its context
\* through the reference stream() returned to its caller.  The yields of
\* nativeChunkToLlmChunk touch no context state and are not steps here.

\* everything of a single turn stays as it is
single == <<config, thread, pc, requests, sent, responses, invocations, active,
            chatVars, streamVars>>

engineContext(h) == 1

\* stream(): "const context = { ... }" is a new object
newContext(h) == Len(h) + 1

\* the heap with object obj at reference c
Store(h, c, obj) == IF c > Len(h) THEN Append(h, obj) ELSE [h EXCEPT ![c] = obj]

Ctx(t) == heap[ctxOf[t]]

\* google: a response with n function calls, f(1), g(12), f(1), ...
TurnCalls(n) ==
    [k \in 1..n |->
        [id |-> <<>>, name |-> IF k % 2 = 1 THEN "f" ELSE "g",
         args |-> IF k % 2 = 1 THEN 1 ELSE 12, arguments |-> <<>>]]

\* the streams the backend of a concurrent turn can open
TurnStreams(canCall) ==
    IF adapter = "google"
    THEN {<<Chunk(<<>>, "STOP", TRUE, NoUsage)>>}
           \cup (IF canCall
                 THEN {<<Chunk(TurnCalls(n), "STOP", FALSE, NoUsage)>> :
                          n \in 1..MaxCalls}
                 ELSE {})
    ELSE {<<TextChunk, Finish("stop", NoUsage)>>}
           \cup (IF canCall
                 THEN {CallWhole(1) \o <<Finish("tool_calls", NoUsage)>>,
                       CallSplit(1) \o CallWhole(2)
                         \o <<Finish("tool_calls", NoUsage)>>}
                 ELSE {})

\* doStream(context) of turn t, its context being ctx: "reset", the request
turnDoStream(t, c, ctx) ==
    /\ \E str \in TurnStreams(turnRequests[t] + 1 < MaxHops) :
          rest' = [rest EXCEPT ![t] = @ \o str]
    /\ heap' = Store(heap, c, [ctx EXCEPT !.toolCalls = resetToolCalls(@)])
    /\ turnRequests' = [turnRequests EXCEPT ![t] = @ + 1]

\* stream() of turn t: the context, then doStream(context)
turnStream(t) ==
    /\ turnPc[t] = "start"
    /\ LET c == newContext(heap)
       IN  /\ ctxOf' = [ctxOf EXCEPT ![t] = c]
           /\ turnDoStream(t, c, [thread |-> buildThread(callerThread),
                                   toolCalls |-> <<>>])
    /\ turnPc' = [turnPc EXCEPT ![t] = "idle"]
    /\ actor' = t
    /\ UNCHANGED <<cur, turnLoop, turnParts, turnResults>>
    /\ UNCHANGED single

\* openai: the accumulator after the tool call delta tc of a chunk
turnAccumulate(tcs, tc) ==
    IF ~tc.present THEN tcs
    ELSE IF tc.id # <<>>
    THEN IF \E k \in 1..Len(tcs) : tcs[k].id = tc.id
         THEN openaiAppendById(tcs, CHOOSE k \in 1..Len(tcs) : tcs[k].id = tc.id, tc)
         ELSE openaiRecord(tcs, tc)
    ELSE openaiAppendToLast(tcs, tc)

\* turn t takes the next native chunk of its stream: nativeChunkToLlmChunk
\* with the context of the turn, up to the callTool of the first call or to
\* its return
turnChunk(t) ==
    /\ turnPc[t] = "idle"
    /\ rest[t] # <<>>
    /\ LET c == Head(rest[t])
           tcs == IF adapter = "google"
                  THEN (IF Len(c.calls) > 0 THEN googleSaveToolCalls(c.calls)
                        ELSE Ctx(t).toolCalls)
                  ELSE turnAccumulate(Ctx(t).toolCalls, c.tc)
           calling == IF adapter = "google" THEN Len(c.calls) > 0
                      ELSE openaiToolCalling(c, tcs)
       IN  /\ heap' = [heap EXCEPT ![ctxOf[t]].toolCalls = tcs]
           /\ turnPc' = [turnPc EXCEPT ![t] = IF calling THEN "callTool" ELSE "idle"]
           /\ turnLoop' = [turnLoop EXCEPT ![t] = IF calling THEN 1 ELSE @]
           /\ turnParts' = [turnParts EXCEPT ![t] = IF calling THEN <<>> ELSE @]
           /\ cur' = [cur EXCEPT ![t] = c]
    /\ rest' = [rest EXCEPT ![t] = Tail(@)]
    /\ actor' = t
    /\ UNCHANGED <<ctxOf, turnRequests, turnResults>>
    /\ UNCHANGED single

\* the registry serves the two turns: the contents it returns to turn t are
\* numbered 10 t + 1, 10 t + 2, ...
TurnSerial(t) == 10 * t + Len(turnResults[t]) + 1

\* callTool returns to turn t: the result is kept (google) or pushed to the
\* thread of the context (openai); after the last call of the loop the
\* messages are pushed (google) and doStream(context) opens the next stream
turnToolReturn(t) ==
    /\ turnPc[t] = "callTool"
    /\ LET content == callToolContent(TurnSerial(t))
           ctx == Ctx(t)
           tc == ctx.toolCalls[turnLoop[t]]
           ps == Append(turnParts[t], [name |-> tc.function, response |-> content])
           last == turnLoop[t] >= Len(ctx.toolCalls)
           th == IF adapter # "google"
                 THEN ctx.thread \o <<openaiCallMessage(tc),
                                      openaiToolMessage(tc.id, tc.function, content)>>
                 ELSE IF last
                 THEN googlePushToolMessages(ctx.thread, cur[t].calls, ps)
                 ELSE ctx.thread
       IN  /\ turnResults' = [turnResults EXCEPT ![t] = Append(@, content)]
           /\ turnParts' = [turnParts EXCEPT ![t] = ps]
           /\ IF last
              THEN /\ turnDoStream(t, ctxOf[t], [ctx EXCEPT !.thread = th])
                   /\ turnPc' = [turnPc EXCEPT ![t] = "idle"]
                   /\ UNCHANGED turnLoop
              ELSE /\ heap' = [heap EXCEPT ![ctxOf[t]].thread = th]
                   /\ turnLoop' = [turnLoop EXCEPT ![t] = @ + 1]
                   /\ UNCHANGED <<turnPc, rest, turnRequests>>
    /\ actor' = t
    /\ UNCHANGED <<ctxOf, cur>>
    /\ UNCHANGED single

\* the stream of turn t is exhausted: its caller's loop ends
turnEnd(t) ==
    /\ turnPc[t] = "idle"
    /\ rest[t] = <<>>
    /\ turnPc' = [turnPc EXCEPT ![t] = "done"]
    /\ actor' = t
    /\ UNCHANGED <<heap, ctxOf, rest, cur, turnLoop, turnParts, turnRequests,
                   turnResults>>
    /\ UNCHANGED single

InitTwoTurns ==
    /\ script = <<>>
    /\ first = NoFirst
    /\ adapter \in {"google", "openai"}
    /\ mode = "stream"
    /\ optsUsage = FALSE
    /\ usageAt = "none"
    /\ registry = "ok"
    /\ backend = "strict"
    /\ DefaultTools
    /\ DefaultThread
    /\ thread = <<>>
    /\ pc = "start"
    /\ stack = <<>>
    /\ completion = NoCompletion
    /\ requests = <<>>
    /\ sent = <<>>
    /\ model = "requested"
    /\ aborted = FALSE
    /\ responses = <<>>
    /\ invocations = <<>>
    /\ active = 0
    /\ toolCalls = <<>>
    /\ ctxDone = FALSE
    /\ chunk = NoChunk
    /\ loop = 0
    /\ results = <<>>
    /\ pending = <<>>
    /\ events = <<>>
    /\ heap = <<>>
    /\ ctxOf = [t \in Turns |-> 0]
    /\ turnPc = [t \in Turns |-> "start"]
    /\ rest = [t \in Turns |-> <<>>]
    /\ cur = [t \in Turns |-> NoChunk]
    /\ turnLoop = [t \in Turns |-> 0]
    /\ turnParts = [t \in Turns |-> <<>>]
    /\ turnRequests = [t \in Turns |-> 0]
    /\ turnResults = [t \in Turns |-> <<>>]
    /\ actor = 0

NextTwoTurns ==
    \E t \in Turns :
        \/ turnStream(t)
        \/ turnChunk(t)
        \/ turnToolReturn(t)
        \/ turnEnd(t)

SpecTwoTurns == InitTwoTurns /\ [][NextTwoTurns]_vars


\* ======================================================================
\* Properties
\* ======================================================================
IsPrefix(a, b) == Len(a) <= Len(b) /\ SubSeq(b, 1, Len(a)) = a

\* the calls the backend asked for in its non-streaming responses, in order
AnnouncedCalls == Flatten([n \in 1..Len(responses) |-> responses[n].calls])

ChatDone == mode = "chat" /\ pc = "done"

\* C1: when a non-streaming completion returns, its toolCalls list has one
\* record per tool call of the turn, in the order the backend asked for them
\* (hop by hop, and in backend order within a hop), and record k carries the
\* params the registry was called with and the result it returned for call k.
C1_ToolCallsOldestFirst ==
    ChatDone =>
        /\ Len(completion.toolCalls) = Len(AnnouncedCalls)
        /\ completion.toolCalls = invocations
        /\ \A k \in 1..Len(AnnouncedCalls) :
              /\ completion.toolCalls[k].name = AnnouncedCalls[k].name
              /\ IF adapter = "google"
                 THEN completion.toolCalls[k].params = AnnouncedCalls[k].args
                 ELSE JSONstringify(completion.toolCalls[k].params)
                        = AnnouncedCalls[k].arguments

\* two hops, the first with two different calls, before the final response
C1_Witness ==
    /\ ChatDone
    /\ Len(responses) = 3
    /\ Len(responses[1].calls) = 2
    /\ responses[1].calls[1].name # responses[1].calls[2].name
    /\ Len(completion.toolCalls) >= 3

ReportedUsages == [n \in 1..Len(responses) |-> responses[n].usage]

\* C2: with usage tracking on and every hop reporting usage, the usage a
\* non-streaming completion returns is the field-wise sum of the usages of
\* its hops.
C2_UsageIsFieldwiseSum ==
    (/\ ChatDone
     /\ optsUsage
     /\ \A n \in 1..Len(responses) : responses[n].usage.present)
        => completion.usage = UsageSum(ReportedUsages)

\* C3: with usage tracking on, a hop that reports no usage leaves the total
\* unchanged: the returned usage is the sum over the hops that reported one.
C3_SilentHopLeavesTotal ==
    (/\ ChatDone
     /\ optsUsage
     /\ \E n \in 1..Len(responses) : ~responses[n].usage.present)
        => completion.usage = UsageSum(ReportedUsages)


\* ---------------------------------------------------- streaming histories
StreamMode == mode = "stream"

\* the history cut at the stream events: segment h holds what was yielded
\* while the chunks of request h were worked on
RECURSIVE Split(_)
Split(evs) ==
    IF evs = <<>> THEN <<<<>>>>
    ELSE LET r == Split(SubSeq(evs, 1, Len(evs) - 1))
             e == evs[Len(evs)]
         IN  IF e.type = "stream" THEN Append(r, <<>>)
             ELSE [r EXCEPT ![Len(r)] = Append(@, e)]

IsToolEntry(e) == e.type \in {"tool", "invoke"}

IsPreparing(e) == e.type = "tool" /\ e.status = "preparing"

IsRunning(e) == e.type = "tool" /\ e.status = "running"

IsInvoke(e) == e.type = "invoke"

IsResult(e) == e.type = "tool" /\ e.done

ToolTrace(seg) == SelectSeq(seg, IsToolEntry)

Names(es) == [k \in 1..Len(es) |-> es[k].name]

\* the names of the calls a stream announces, in the order it announces them
\* (google: the function calls of a chunk; openai: the fragments with a name)
RECURSIVE AnnouncedNames(_)
AnnouncedNames(str) ==
    IF str = <<>> THEN <<>>
    ELSE LET c == Head(str)
         IN  Names(c.calls)
               \o (IF c.tc.present /\ c.tc.name # "" THEN <<c.tc.name>> ELSE <<>>)
               \o AnnouncedNames(Tail(str))

\* the usage a stream reports (on one chunk at most)
RECURSIVE StreamReported(_)
StreamReported(str) ==
    IF str = <<>> THEN NoUsage
    ELSE UsagePlus(Head(str).usage, StreamReported(Tail(str)))

UsageEvents == SelectSeq(events, LAMBDA e : e.type = "usage")

\* C4: with usage tracking on, the usage event of a streaming turn with tool
\* round trips carries the sum of the usages of all its backend calls.
C4_StreamUsageAccumulated ==
    (/\ StreamMode
     /\ pc = "done"
     /\ optsUsage
     /\ Len(requests) >= 2
     /\ UsageEvents # <<>>)
        => LET u == UsageEvents[Len(UsageEvents)].usage
               total == UsageSum([n \in 1..Len(responses) |->
                                    StreamReported(responses[n])])
           IN  /\ u.prompt_tokens = total.prompt_tokens
               /\ u.completion_tokens = total.completion_tokens

\* the entries e1..e4 of one tool call, in the order the claim gives them
SameCall(a, b) == a.name = b.name

\* a trace is a prefix of  preparing, running, invoke, result  repeated
Sequenced4(t) ==
    \A i \in 1..Len(t) :
        /\ (i % 4 = 1) => IsPreparing(t[i])
        /\ (i % 4 = 2) => IsRunning(t[i]) /\ SameCall(t[i], t[i - 1])
        /\ (i % 4 = 3) => /\ IsInvoke(t[i]) /\ SameCall(t[i], t[i - 1])
                          /\ t[i].params = t[i - 1].params
        /\ (i % 4 = 0) => /\ IsResult(t[i]) /\ SameCall(t[i], t[i - 1])
                          /\ t[i].params = t[i - 1].params

\* a trace is a prefix of  running, invoke, result  repeated
Sequenced3(t) ==
    \A i \in 1..Len(t) :
        /\ (i % 3 = 1) => IsRunning(t[i])
        /\ (i % 3 = 2) => /\ IsInvoke(t[i]) /\ SameCall(t[i], t[i - 1])
                          /\ t[i].params = t[i - 1].params
        /\ (i % 3 = 0) => /\ IsResult(t[i]) /\ SameCall(t[i], t[i - 1])
                          /\ t[i].params = t[i - 1].params

Preparings(t) == SelectSeq(t, IsPreparing)

NotPreparings(t) == SelectSeq(t, LAMBDA e : ~IsPreparing(e))

Runnings(t) == SelectSeq(t, IsRunning)

\* the calls are taken in the order the backend announced them
InBackendOrder(t, h) ==
    /\ IsPrefix(Names(Preparings(t)), AnnouncedNames(responses[h]))
    /\ IsPrefix(Names(Runnings(t)), Names(Preparings(t)))

\* C5 as stated: in every hop of a streaming turn the tool events and the
\* registry calls are  preparing(c1), running(c1), invoke(c1), result(c1),
\* ..., preparing(cn), running(cn), invoke(cn), result(cn)  in backend order.
C5_ExactSequenceBothAdapters ==
    StreamMode =>
        \A h \in 1..Len(responses) :
            LET t == ToolTrace(Split(events)[h])
            IN  Sequenced4(t) /\ InBackendOrder(t, h)

\* C5 as the code has it: google as stated; openai yields preparing(c) when
\* the first fragment of c arrives, so the preparing events of a hop, in
\* backend order, come before its first running event, and from the finish
\* signal on the entries are  running(c1), invoke(c1), result(c1), ...,
\* running(cn), invoke(cn), result(cn).  For both, the calls are invoked
\* one at a time, in backend order.
C5_ToolSequence ==
    StreamMode =>
        /\ active <= 1
        /\ \A h \in 1..Len(responses) :
              LET t == ToolTrace(Split(events)[h])
              IN  /\ InBackendOrder(t, h)
                  /\ IF adapter = "google"
                     THEN Sequenced4(t)
                     ELSE /\ Sequenced3(NotPreparings(t))
                          /\ \A i, j \in 1..Len(t) :
                                IsPreparing(t[i]) /\ ~IsPreparing(t[j]) => i < j

\* an openai hop with two calls has been run to its stream switch
C5_Witness ==
    /\ StreamMode
    /\ adapter = "openai"
    /\ pc = "s_switch"
    /\ Len(Split(events)) = 2
    /\ Len(ToolTrace(Split(events)[1])) = 8


\* the results carried by the tool messages of a thread, in thread order
\* (google: the responses of the parts; openai: the content, parsed back)
RECURSIVE ThreadResults(_)
ThreadResults(th) ==
    IF th = <<>> THEN <<>>
    ELSE LET m == Head(th)
         IN  (IF m.role # "tool" THEN <<>>
              ELSE IF adapter = "google"
              THEN [k \in 1..Len(m.parts) |-> m.parts[k].response]
              ELSE <<JSONparse(m.content)>>)
               \o ThreadResults(Tail(th))

ResultEvents(seg) == SelectSeq(seg, IsResult)

\* the results of the tool calls of hops 1..h, in the order they were yielded
RECURSIVE ResultsThrough(_)
ResultsThrough(h) ==
    IF h = 0 THEN <<>>
    ELSE ResultsThrough(h - 1)
           \o [k \in 1..Len(ResultEvents(Split(events)[h])) |->
                 ResultEvents(Split(events)[h])[k].result]

\* every request after the first was issued when all calls of the hop before
\* it had been executed, with a thread that holds all tool results so far
C6_State ==
    StreamMode =>
        /\ pc = "s_switch" =>
              /\ events[Len(events)].type = "stream"
              /\ requests[Len(requests)] = thread
        /\ \A h \in 1..(Len(requests) - 1) :
              /\ Names(ResultEvents(Split(events)[h])) = AnnouncedNames(responses[h])
              /\ ThreadResults(requests[h + 1]) = ResultsThrough(h)
              /\ Len(ResultsThrough(h)) > 0

\* once the stream event is yielded, nativeChunkToLlmChunk yields nothing
\* more for that chunk: its next step is its return
C6_Step == pc = "s_switch" => pc' = "s_idle" /\ events' = events

\* C6: the streamSwitch event of a hop comes only after every tool call of
\* the hop was executed and its messages appended to the thread; the new
\* request carries a thread with all those tool results; and nothing more is
\* yielded from the old chunk after the streamSwitch.
C6_SwitchAfterTools == [](C6_State) /\ [][C6_Step]_vars

\* a second stream switch, after a hop of two calls
C6_Witness ==
    /\ StreamMode
    /\ pc = "s_switch"
    /\ Len(requests) = 3
    /\ Len(ResultEvents(Split(events)[2])) = 2

IsDoneContent(e) == e.type = "content" /\ e.done

\* a stream that asks for no tool and ends with a finish signal
TerminalStream(str) ==
    /\ AnnouncedNames(str) = <<>>
    /\ \E k \in 1..Len(str) :
          IF adapter = "google" THEN str[k].finish # "" ELSE openaiDone(str[k])

C8_AccumulatorReset ==
    StreamMode =>
        /\ (pc = "s_switch" \/ (pc = "s_idle" /\ chunk = NoChunk)) => toolCalls = <<>>
        /\ \A h \in 1..Len(responses) :
              IsPrefix(Names(SelectSeq(Split(events)[h], IsInvoke)),
                       AnnouncedNames(responses[h]))

\* the request after a tool round trip has just been issued
C8_Witness ==
    /\ StreamMode
    /\ pc = "s_switch"
    /\ Len(requests) = 3
    /\ Len(invocations) >= 2

\* C9: the records of the accumulator have pairwise distinct ids.
C9_DistinctIds ==
    StreamMode =>
        \A i, j \in 1..Len(toolCalls) :
            i # j => toolCalls[i].id # toolCalls[j].id

\* C10: the thread is only appended to
C10_Step == IsPrefix(thread, thread')

C10_ThreadAppendOnly == [][C10_Step]_vars

\* both hops of a turn have appended their messages
C10_Witness == Len(requests) = 3 /\ Len(thread) >= 5

\* the chunks the backend has yet to deliver belong to the stream opened last
OnlyNewestStreamOpen ==
    Len(pending) <= Len(responses[Len(responses)])
      /\ pending = SubSeq(responses[Len(responses)],
                          Len(responses[Len(responses)]) - Len(pending) + 1,
                          Len(responses[Len(responses)]))

\* C11: at most one backend call is in flight: when a streaming turn has just
\* opened a stream, the stream opened before it has delivered all its chunks;
\* a non-streaming turn has at most one request without response, and issues
\* a request only when no tool invocation is in flight.
C11_OneCallInFlight ==
    /\ (StreamMode /\ pc \in {"s_idle", "s_switch"} /\ responses # <<>>)
          => OnlyNewestStreamOpen
    /\ mode = "chat" =>
          /\ Len(requests) - Len(responses) \in {0, 1}
          /\ pc = "chat_await" => (Len(requests) = Len(responses) + 1 /\ active = 0)

\* the turn has stopped on a tool call whose arguments JSON.parse rejects
ChatParseFailure ==
    /\ mode = "chat" /\ pc = "error"
    /\ Top.i \in 1..Len(Top.response.calls)
    /\ chatParseFails(Top.response.calls[Top.i])

StreamParseFailure ==
    /\ StreamMode /\ pc = "error"
    /\ loop \in 1..Len(toolCalls)
    /\ ~JSONvalid(toolCalls[loop].args)

\* the registry calls of the hop the streaming turn is in
HopInvokes == SelectSeq(Split(events)[Len(Split(events))], IsInvoke)

\* C12: when the arguments of a tool call fail to parse the turn fails at
\* that call: the registry was called for the calls before it in the hop and
\* not for it, no invocation is in flight, no call with unparsable arguments
\* is ever handed to the registry, and the turn takes no further step (no
\* retry, no further backend request).
C12_ParseFailureIsFatal ==
    /\ ChatParseFailure =>
          /\ Len(Top.toolCallInfo) = Top.i - 1
          /\ active = 0
          /\ Len(requests) = Len(responses)
          /\ ~ENABLED Next
    /\ StreamParseFailure =>
          /\ Len(HopInvokes) = loop - 1
          /\ active = 0
          /\ ~ENABLED Next
    /\ pc = "chat_callTool" => ~chatParseFails(Top.response.calls[Top.i])
    /\ pc \in {"g_running", "g_callTool", "o_running", "o_callTool"} =>
          JSONvalid(toolCalls[loop].args)
    /\ ChatDone =>
          \A k \in 1..Len(AnnouncedCalls) : ~chatParseFails(AnnouncedCalls[k])

\* a streaming hop ran its first call and failed on the arguments of the
\* second
C12_Witness ==
    /\ StreamParseFailure
    /\ loop = 2
    /\ Len(invocations) = 1

\* the number of tool calls response n announces
CallsAnnounced(n) ==
    IF mode = "chat" THEN Len(responses[n].calls)
    ELSE Len(AnnouncedNames(responses[n]))

RECURSIVE CallsThrough(_)
CallsThrough(h) == IF h = 0 THEN 0 ELSE CallsThrough(h - 1) + CallsAnnounced(h)

InvocationResults == [k \in 1..Len(invocations) |-> invocations[k].result]

\* the turn has stopped in the "cumulate usage" block of the openai chat()
ChatCumulateFailure ==
    /\ mode = "chat" /\ pc = "error"
    /\ Top.i > Len(Top.response.calls)
    /\ cumulateThrows(completion.usage, Top.response.usage)

\* C13: a failure of the registry for one call is that call's result and
\* does not end the turn: every request after the first carries a thread
\* with the results of all calls of the hops before it, failures included,
\* in order; a streaming turn yields every result, a non-streaming turn
\* returns every result; a finished turn has invoked every call the backend
\* announced; and the turn fails only for unparsable arguments or in usage
\* accumulation, never for a registry failure.
C13_RegistryFailureIsAResult ==
    /\ \A h \in 2..Len(requests) :
          ThreadResults(requests[h])
            = SubSeq(InvocationResults, 1, CallsThrough(h - 1))
    /\ StreamMode =>
          [k \in 1..Len(ResultEvents(events)) |-> ResultEvents(events)[k].result]
            = InvocationResults
    /\ ChatDone => completion.toolCalls = invocations
    /\ pc = "done" => Len(invocations) = CallsThrough(Len(responses))
    /\ pc = "error" =>
          ChatParseFailure \/ StreamParseFailure \/ ChatCumulateFailure

\* the registry failed for the first call of a hop of two calls, the second
\* call was executed and the next request issued
C13_Witness ==
    /\ Len(invocations) >= 2
    /\ invocations[1].result = callToolError
    /\ CallsAnnounced(1) = 2
    /\ Len(requests) >= 2
    /\ ThreadResults(requests[2]) = <<callToolError, 2>>

\* C14: a backend request carries tool declarations if and only if the
\* tools are enabled (flag true, or top_k given) and the model supports
\* tools and at least one tool is registered.
C14_ToolsDeclaredIff ==
    \A n \in 1..Len(sent) :
        sent[n].tools
          <=> ((optsTools = "true" \/ topK) /\ supportsTools /\ nTools > 0)

\* C15: with the tools flag forced off no request carries tool
\* declarations, whatever top_k; the presence of top_k decides only when the
\* flag is unset, so with the flag forced on a model that supports tools is
\* given the registered tools, whatever top_k.
C15_ToolsFlagTriState ==
    \A n \in 1..Len(sent) :
        /\ optsTools = "false" => ~sent[n].tools
        /\ (optsTools = "true" /\ supportsTools /\ nTools > 0) => sent[n].tools

\* C17: when the thread needs a vision model (it has an image, the
\* requested model is not vision-capable and a vision-capable model exists),
\* every backend request of the turn, from stream() and from complete(), is
\* issued with the substituted model.
C17_SelectedModelOnEveryRequest ==
    needsVision => \A n \in 1..Len(sent) : sent[n].model = "vision"

\* C16: once the caller has stopped a streaming turn at an event boundary,
\* the backend stream was asked to stop and delivers nothing more, no tool
\* invocation is in flight, and the turn takes no further step: no tool is
\* invoked and no backend request issued.
C16_StopAbortsTheStream ==
    pc = "stopped" =>
        /\ aborted
        /\ pending = <<>>
        /\ active = 0
        /\ ~ENABLED NextStop

\* the responses so far that ask for tools
ToolHops == Cardinality({n \in 1..Len(responses) : CallsAnnounced(n) > 0})

\* C18: the tool loop goes on until a response carries no tool calls.  Once
\* a non-streaming turn has received a response without tool calls after k
\* hops, it has issued exactly k + 1 requests, every call announced was
\* invoked, none is in flight, and the turn only returns (so that no request
\* and no invocation follows); while the last response asks for tools the
\* turn does not end, except on arguments that do not parse.  A turn,
\* streaming or not, that has ended normally has issued one request per tool
\* hop and one more.
C18_LoopUntilNoToolCalls ==
    /\ (mode = "chat" /\ responses # <<>>) =>
          IF CallsAnnounced(Len(responses)) = 0
          THEN /\ Len(requests) = Len(responses)
               /\ Len(requests) = ToolHops + 1
               /\ ToolHops = Len(responses) - 1
               /\ Len(invocations) = CallsThrough(Len(responses))
               /\ active = 0
               /\ pc \in {"chat_return", "done", "error"}
               /\ pc = "error" => ChatCumulateFailure
          ELSE /\ pc \in {"chat_callTool", "chat_await", "error"}
               /\ pc = "error" => ChatParseFailure
               /\ pc = "chat_await" => Len(requests) = Len(responses) + 1
    /\ pc = "done" =>
          /\ Len(requests) = ToolHops + 1
          /\ CallsAnnounced(Len(responses)) = 0
          /\ Len(invocations) = CallsThrough(Len(responses))

\* a non-streaming turn has returned after MaxHops tool hops
C18_Witness ==
    /\ ChatDone
    /\ ToolHops = MaxHops
    /\ Len(requests) = MaxHops + 1

\* what a turn of two concurrent turns owns is its own: the two turns have
\* different contexts, the thread of a turn carries the results of its own
\* tool calls and no other, and a turn that awaits a tool finds its call in
\* its accumulator
C19_State ==
    /\ (ctxOf[1] # 0 /\ ctxOf[2] # 0) => ctxOf[1] # ctxOf[2]
    /\ \A t \in Turns :
          ctxOf[t] # 0 =>
              /\ IsPrefix(ThreadResults(Ctx(t).thread), turnResults[t])
              /\ turnPc[t] \in {"idle", "done"} =>
                    ThreadResults(Ctx(t).thread) = turnResults[t]
              /\ turnPc[t] = "callTool" => turnLoop[t] \in 1..Len(Ctx(t).toolCalls)

\* a step of one turn leaves the context of the other turn as it is
C19_Step ==
    \A u \in Turns :
        (u # actor' /\ ctxOf[u] # 0) =>
            /\ ctxOf'[u] = ctxOf[u]
            /\ heap'[ctxOf[u]] = heap[ctxOf[u]]

\* C19: two streaming turns active at the same time on one engine instance
\* share no turn state: each stream() call creates a context of its own, and
\* under every interleaving of their chunks and tool executions the thread
\* and the accumulator of a turn are changed by the steps of that turn only
\* and hold what that turn put there.
C19_NoSharedTurnState == [](C19_State) /\ [][C19_Step]_vars

\* both turns are in a tool hop at once, one awaiting a tool and the other
\* with a result already in its thread
C19_Witness ==
    /\ turnPc[1] = "callTool"
    /\ turnPc[2] = "callTool"
    /\ Len(Ctx(1).toolCalls) = 2
    /\ Len(turnResults[2]) >= 1
    /\ Len(turnResults[1]) >= 1

\* the positions, in the caller's thread, of the messages the units of a
\* payload were built from (the content of a message is its position)
Positions(payload) ==
    [k \in 1..Len(payload) |->
        JSONparse(IF adapter = "google" THEN payload[k].parts[1]
                  ELSE payload[k].content)]

\* the positions of the messages of the caller's thread that are no system
\* messages
OtherPositions ==
    LET RECURSIVE Pos(_)
        Pos(k) == IF k > Len(callerThread) THEN <<>>
                  ELSE (IF callerThread[k].role # "system" THEN <<k>> ELSE <<>>)
                         \o Pos(k + 1)
    IN  Pos(1)

\* C20: for a model without system-role support, the payload sent with the
\* first request has no unit with role system, its units are in the order
\* their messages have in the thread, and every message that is no system
\* message has its unit.
C20_NoSystemUnitOrderKept ==
    (requests # <<>> /\ ~acceptsSystemRole) =>
        LET payload == requests[1]
            pos == Positions(payload)
        IN  /\ \A k \in 1..Len(payload) : payload[k].role # "system"
            /\ \A i, j \in 1..Len(pos) : i < j => pos[i] < pos[j]
            /\ \A k \in 1..Len(pos) : pos[k] \in 1..Len(callerThread)
            /\ SelectSeq(pos, LAMBDA q : callerThread[q].role # "system")
                 = OtherPositions

\* a thread with a system message between two others, for a model without
\* system role
C20_Witness ==
    /\ requests # <<>>
    /\ ~acceptsSystemRole
    /\ Len(callerThread) = 3
    /\ callerThread[2].role = "system"
    /\ callerThread[1].role = "user"
    /\ callerThread[3].role = "assistant"

\* ------------------------------------------------ openai argument fragments
\* the ids of the calls a stream opens, in the order it opens them
RECURSIVE OpenedIds(_)
OpenedIds(str) ==
    IF str = <<>> THEN <<>>
    ELSE LET before == OpenedIds(SubSeq(str, 1, Len(str) - 1))
             tc == str[Len(str)].tc
         IN  IF tc.present /\ tc.id # <<>>
                /\ \A k \in 1..Len(before) : before[k] # tc.id
             THEN Append(before, tc.id)
             ELSE before

\* the call the k-th chunk of a stream belongs to: the call with the id of
\* its fragment or, for a fragment without id, the call opened last
FragmentCall(str, k) ==
    LET tc == str[k].tc
        opened == OpenedIds(SubSeq(str, 1, k - 1))
    IN  IF ~tc.present THEN <<>>
        ELSE IF tc.id # <<>> THEN tc.id
        ELSE IF opened = <<>> THEN <<>>
        ELSE opened[Len(opened)]

\* the fragments a stream has for the call with this id, concatenated in the
\* order of the stream
FragmentsOf(str, id) ==
    Flatten([k \in 1..Len(str) |->
                IF str[k].tc.present /\ FragmentCall(str, k) = id
                THEN str[k].tc.arguments ELSE <<>>])

\* the chunks of the stream opened last that the adapter has taken
Consumed ==
    LET str == responses[Len(responses)]
    IN  IF Len(pending) >= Len(str) THEN <<>>
        ELSE SubSeq(str, 1, Len(str) - Len(pending))

\* C21: in the openai streaming adapter a fragment with an id goes to the
\* record with that id and a fragment without id to the record opened last:
\* at every moment record k of the accumulator is the k-th call the stream
\* has opened and its args are the fragments received for it so far, in
\* order; and the arguments every tool is called with are the parse of the
\* in-order concatenation of all fragments of its call.
C21_FragmentsConcatenated ==
    (StreamMode /\ adapter = "openai" /\ responses # <<>>) =>
        /\ pc \in {"s_idle", "o_prepared", "s_content", "s_usage", "o_reasoning"} =>
              /\ Len(toolCalls) = Len(OpenedIds(Consumed))
              /\ \A k \in 1..Len(toolCalls) :
                    /\ toolCalls[k].id = OpenedIds(Consumed)[k]
                    /\ toolCalls[k].args = FragmentsOf(Consumed, toolCalls[k].id)
        /\ \A h \in 1..Len(responses) :
              LET inv == SelectSeq(Split(events)[h], IsInvoke)
                  ids == OpenedIds(responses[h])
              IN  /\ Len(inv) <= Len(ids)
                  /\ \A j \in 1..Len(inv) :
                        JSONstringify(inv[j].params)
                          = FragmentsOf(responses[h], ids[j])

\* a tool was called with the arguments of a call whose last fragment came,
\* with its id, after the next call had been opened
C21_Witness ==
    /\ StreamMode /\ adapter = "openai"
    /\ Len(invocations) >= 1
    /\ Len(responses[1]) >= 3
    /\ responses[1][1].tc.id = CallIds[1]
    /\ responses[1][2].tc.id = CallIds[2]
    /\ responses[1][3].tc.id = CallIds[1]
    /\ invocations[1].params = 12

\* C22: a request of the openrouter adapter carries tool declarations if
\* and only if a plugin is registered and the tool list is not empty,
\* whatever the tools flag and whether or not top_k is given.
C22_OpenRouterDeclaresWithPlugins ==
    adapter = "openrouter" =>
        \A n \in 1..Len(sent) : sent[n].tools <=> getToolsOpts

\* the tool-call announcements of the thread: its assistant messages
Announcements == SelectSeq(thread, LAMBDA msg : msg.role = "assistant")

\* C23: in the openai streaming adapter the thread has one tool-call
\* announcement per executed tool call, in the order of execution, and the
\* announcement of a call carries the argument string that was parsed and
\* passed to the tool, whether the fragments repeat the call id or omit it.
C23_AnnouncementCarriesArguments ==
    (StreamMode /\ adapter = "openai") =>
        /\ Len(Announcements) = Len(invocations)
        /\ \A k \in 1..Len(invocations) :
              LET calls == Announcements[k].tool_calls
              IN  calls[Len(calls)].arguments
                    = JSONstringify(invocations[k].params)

\* -------------------------------------------------- openai finish signals
\* the stream has a chunk with a finish reason
HasFinish(str) == \E k \in 1..Len(str) : str[k].finish # ""

\* the outcomes of hop h so far: its stream switch, its done content events
Switched(h) == h < Len(Split(events))

DoneContents(h) == Len(SelectSeq(Split(events)[h], IsDoneContent))

\* C24: in the openai streaming adapter no stream has both a stream switch
\* and a content event with done = TRUE, and when the turn has ended every
\* stream that had a finish signal has exactly one of the two, whatever the
\* finish reason and whether or not the accumulator was empty.
C24_FinishHasOneOutcome ==
    (StreamMode /\ adapter = "openai") =>
        \A h \in 1..Len(responses) :
            /\ DoneContents(h) + (IF Switched(h) THEN 1 ELSE 0) <= 1
            /\ (pc = "done" /\ HasFinish(responses[h])) =>
                  DoneContents(h) + (IF Switched(h) THEN 1 ELSE 0) = 1

\* the adapter has read context.toolCalls[length - 1] of an empty accumulator
AccessesMissingRecord ==
    /\ StreamMode /\ adapter = "openai"
    /\ pc = "error"
    /\ chunk.tc.present
    /\ chunk.tc.id = <<>>
    /\ toolCalls = <<>>

\* C25: in the openai streaming adapter a fragment is appended only to a
\* record that exists: the record of an empty accumulator is never
\* accessed, also when the first fragment of a stream has no call id.
C25_AppendsToExistingRecord == ~AccessesMissingRecord

\* ------------------------------------------ streaming against non-streaming
Roles(th) == [k \in 1..Len(th) |-> th[k].role]

\* the streaming turn has run to its end on the responses of the
\* non-streaming turn before it
BothDone == StreamMode /\ pc = "done" /\ first # NoFirst

\* C26: for the same adapter and the same backend responses the streaming
\* turn calls the registry for the same tools with the same arguments in the
\* same order as the non-streaming turn, it issues as many requests, and the
\* threads of their requests have the same number of messages with the same
\* roles in the same order.
C26_StreamEqualsChat ==
    BothDone =>
        /\ invocations = first.invocations
        /\ Len(requests) = Len(first.requests)
        /\ \A h \in 1..Len(requests) :
              h <= Len(first.requests) =>
                  Roles(requests[h]) = Roles(first.requests[h])

====
